---- MODULE Spec2Model ----
(***************************************************************************)
(* State-machine model of the KuCoin API client (class Kucoin, index.js):  *)
(* the construction of a request by rawRequest, its hand-over to the JSON  *)
(* transport client, and the settling of the call's promise by the         *)
(* transport callback.                                                     *)
(*                                                                         *)
(* JavaScript strings are TLA+ strings; Chars splits one into its UTF-16   *)
(* code units, charCode gives a unit's number.  Other JavaScript values    *)
(* are tagged records: [t |-> "number", n |-> 2], [t |-> "undefined"], ... *)
(***************************************************************************)
EXTENDS Integers, Sequences, FiniteSets, TLC

VARIABLES
  apiKey,       \* this._apiKey
  apiSecret,    \* this._apiSecret
  client,       \* this.client, the restify JSON client
  path_prefix,  \* this.path_prefix
  clock,        \* what new Date().getTime() returns now
  calls,        \* the rawRequest calls made so far, each with its deferred and
                \* with the credentials of the client it was made on
  requests,     \* the requests handed to this.client.get / this.client.post
  signatures,   \* the direct calls of getSignature made so far, each with its result
  object        \* the params object the caller of the endpoint methods holds, or
                \* undefined while it holds none

vars == <<apiKey, apiSecret, client, path_prefix, clock, calls, requests, signatures, object>>

(***************************************************************************)
(* Bounds of the model.                                                    *)
(***************************************************************************)
MaxCalls == 2    \* calls of rawRequest on one client (specification Spec)
MaxTicks == 1    \* milliseconds the clock advances
MaxParams == 2   \* own properties of a params object (specification SpecCall)
ClockStart == 9  \* the clock reading at construction
MaxSignatures == 2   \* direct calls of getSignature (specification SpecSign)

(***************************************************************************)
(* JavaScript values.                                                      *)
(***************************************************************************)
Undefined == [t |-> "undefined"]
Null == [t |-> "null"]
Num(n) == [t |-> "number", n |-> n]
Str(s) == [t |-> "string", s |-> s]
Bool(b) == [t |-> "boolean", b |-> b]
\* a plain object: its own enumerable properties <<key, value>> in insertion order
Obj(props) == [t |-> "object", props |-> props]
ErrorObj(code) == [t |-> "error", code |-> code]
\* an array of strings
Arr(items) == [t |-> "array", items |-> items]

\* the printable ASCII characters in code order, from code 32 (the double quote,
\* the backslash and the backtick, which no string of the model holds, by name)
Ascii ==
  <<" ", "!", "dquote", "#", "$", "%", "&", "'", "(", ")", "*", "+", ",", "-", ".", "/",
    "0", "1", "2", "3", "4", "5", "6", "7", "8", "9", ":", ";", "<", "=", ">", "?",
    "@", "A", "B", "C", "D", "E", "F", "G", "H", "I", "J", "K", "L", "M", "N", "O",
    "P", "Q", "R", "S", "T", "U", "V", "W", "X", "Y", "Z", "[", "backslash", "]", "^", "_",
    "backtick", "a", "b", "c", "d", "e", "f", "g", "h", "i", "j", "k", "l", "m", "n", "o",
    "p", "q", "r", "s", "t", "u", "v", "w", "x", "y", "z", "{", "|", "}", "~">>

Chars(str) == [i \in 1..Len(str) |-> SubSeq(str, i, i)]

CodeTable == [c \in {Ascii[i] : i \in 1..Len(Ascii)} |-> 31 + (CHOOSE i \in 1..Len(Ascii) : Ascii[i] = c)]

charCode(c) == CodeTable[c]

Digits == <<"0", "1", "2", "3", "4", "5", "6", "7", "8", "9">>

\* Number.prototype.toString of a non-negative integer
RECURSIVE NumberToString(_)
NumberToString(n) ==
  IF n < 10 THEN Digits[n + 1]
  ELSE NumberToString(n \div 10) \o Digits[(n % 10) + 1]

\* Array.prototype.join
RECURSIVE ArrayJoin(_, _)
ArrayJoin(a, sep) ==
  IF a = <<>> THEN ""
  ELSE IF Len(a) = 1 THEN a[1]
  ELSE a[1] \o sep \o ArrayJoin(Tail(a), sep)

\* ToString of a value, as applied by the + operator to a string and a value
JsToString(v) ==
  CASE v.t = "string" -> v.s
    [] v.t = "number" -> NumberToString(v.n)
    [] v.t = "boolean" -> (IF v.b THEN "true" ELSE "false")
    [] v.t = "undefined" -> "undefined"
    [] v.t = "null" -> "null"
    [] v.t = "object" -> "[object Object]"
    [] v.t = "array" -> ArrayJoin(v.items, ",")

\* ToBoolean
Truthy(v) ==
  CASE v.t = "string" -> v.s # ""
    [] v.t = "number" -> v.n # 0
    [] v.t = "boolean" -> v.b
    [] v.t = "undefined" -> FALSE
    [] v.t = "null" -> FALSE
    [] v.t = "object" -> TRUE
    [] v.t = "array" -> TRUE
    [] v.t = "error" -> TRUE

\* property read o.k of an object: undefined when o has no such property
Get(o, k) ==
  IF \E i \in 1..Len(o.props) : o.props[i][1] = k
  THEN o.props[CHOOSE i \in 1..Len(o.props) : o.props[i][1] = k][2]
  ELSE Undefined

\* property write o.k = v: in place when o has the property, else as its last one
Set(o, k, v) ==
  IF \E i \in 1..Len(o.props) : o.props[i][1] = k
  THEN Obj([i \in 1..Len(o.props) |-> IF o.props[i][1] = k THEN <<k, v>> ELSE o.props[i]])
  ELSE Obj(Append(o.props, <<k, v>>))

\* the default of a parameter, params = {}: taken when the argument is undefined
OrEmpty(params) == IF params = Undefined THEN Obj(<<>>) ELSE params

\* v != undefined
NotUndefined(v) == v.t \notin {"undefined", "null"}

\* String.prototype.toLowerCase
toLowerCase(str) ==
  LET lower(c) == IF charCode(c) \in 65..90 THEN Ascii[charCode(c) + 1] ELSE c
  IN ArrayJoin([i \in 1..Len(str) |-> lower(SubSeq(str, i, i))], "")

\* s < t as Array.prototype.sort compares two strings by default: code unit by
\* code unit, a proper prefix first
StringLess(s, t) ==
  LET a == Chars(s)
      b == Chars(t)
  IN \E i \in 1..Len(b) :
       /\ \A j \in 1..(i - 1) : j <= Len(a) /\ a[j] = b[j]
       /\ \/ i > Len(a)
          \/ i <= Len(a) /\ charCode(a[i]) < charCode(b[i])

\* one step of the sort: x goes before the first element greater than it
SortInsert(sorted, x) ==
  LET later == {i \in 1..Len(sorted) : StringLess(x, sorted[i])}
      at == IF later = {} THEN Len(sorted) + 1
            ELSE CHOOSE i \in later : \A j \in later : i <= j
  IN SubSeq(sorted, 1, at - 1) \o <<x>> \o SubSeq(sorted, at, Len(sorted))

\* Array.prototype.sort() without a comparator, on an array of strings
RECURSIVE ArraySort(_)
ArraySort(a) ==
  IF a = <<>> THEN <<>>
  ELSE SortInsert(ArraySort(SubSeq(a, 1, Len(a) - 1)), a[Len(a)])

\* an array index key: a decimal numeral without a leading zero
IsIndexKey(k) ==
  /\ k # ""
  /\ \A i \in 1..Len(k) : \E d \in 1..10 : Digits[d] = SubSeq(k, i, i)
  /\ Len(k) > 1 => SubSeq(k, 1, 1) # "0"

RECURSIVE IndexValue(_)
IndexValue(k) ==
  IF k = "" THEN 0
  ELSE 10 * IndexValue(SubSeq(k, 1, Len(k) - 1))
       + (CHOOSE d \in 0..9 : Digits[d + 1] = SubSeq(k, Len(k), Len(k)))

\* the keys of an object in the order for..in visits them: the index keys in
\* ascending numeric order, then the other keys in insertion order
ForInKeys(props) ==
  LET idx == {i \in 1..Len(props) : IsIndexKey(props[i][1])}
      rank(i) == IF i \in idx
                 THEN Cardinality({j \in idx : IndexValue(props[j][1]) < IndexValue(props[i][1])}) + 1
                 ELSE Cardinality(idx) + Cardinality({j \in 1..i : j \notin idx})
  IN [r \in 1..Len(props) |-> props[CHOOSE i \in 1..Len(props) : rank(i) = r][1]]

\* btoa on the UTF-8 bytes of an ASCII string: Buffer(s).toString('base64')
Base64Alphabet ==
  Chars("ABCDEFGHIJKLMNOPQRSTUVWXYZabcdefghijklmnopqrstuvwxyz0123456789+/")

RECURSIVE Base64Bytes(_)
Base64Bytes(b) ==
  LET sextet(n, k) == Base64Alphabet[((n \div (64 ^ (3 - k))) % 64) + 1]
      n1 == b[1] * 65536
      n2 == b[1] * 65536 + b[2] * 256
      n3 == b[1] * 65536 + b[2] * 256 + b[3]
  IN IF b = <<>> THEN ""
     ELSE IF Len(b) = 1 THEN sextet(n1, 0) \o sextet(n1, 1) \o "=="
     ELSE IF Len(b) = 2 THEN sextet(n2, 0) \o sextet(n2, 1) \o sextet(n2, 2) \o "="
     ELSE sextet(n3, 0) \o sextet(n3, 1) \o sextet(n3, 2) \o sextet(n3, 3)
          \o Base64Bytes(SubSeq(b, 4, Len(b)))

Base64(s) == Base64Bytes([i \in 1..Len(s) |-> charCode(SubSeq(s, i, i))])

\* crypto.createHmac('sha256', key).update(data).digest('hex'): the keyed hash is
\* not computed; the digest is the string named by its algorithm, key and data
HmacSha256Hex(key, data) ==
  [t |-> "string", digest |-> [hmac |-> "sha256", key |-> key, data |-> data, encoding |-> "hex"]]

(***************************************************************************)
(* The Kucoin class.                                                       *)
(***************************************************************************)

\* variant of queryStringOf: the pushed strings are joined without being sorted
queryStringUnsorted(params) ==
  IF params # Undefined
  THEN LET keys == ForInKeys(params.props)
           pushed == [i \in 1..Len(keys) |->
                        keys[i] \o "=" \o JsToString(Get(params, keys[i]))]
       IN ArrayJoin(pushed, "&")
  ELSE ""

\* variant of queryStringOf: the keys are sorted, not the pushed strings
queryStringSortedByKey(params) ==
  IF params # Undefined
  THEN LET keys == ArraySort(ForInKeys(params.props))
           pushed == [i \in 1..Len(keys) |->
                        keys[i] \o "=" \o JsToString(Get(params, keys[i]))]
       IN ArrayJoin(pushed, "&")
  ELSE ""

\* rawRequest, lines 45-55: the local queryString
queryStringOf(params) ==
  IF params # Undefined
  THEN LET keys == ForInKeys(params.props)
           pushed == [i \in 1..Len(keys) |->
                        keys[i] \o "=" \o JsToString(Get(params, keys[i]))]
       IN ArrayJoin(ArraySort(pushed), "&")
  ELSE ""

\* variant of optionsPath: the '?' is appended whatever the query string
optionsPathAlwaysQuery(path, queryString) ==
  path \o "?" \o queryString

\* rawRequest, line 57: options.path
optionsPath(path, queryString) ==
  path \o (IF queryString # "" THEN "?" \o queryString ELSE "")

\* variant of getSignature: the keyed hash is taken over the raw concatenation
getSignatureRaw(path, queryString, nonce) ==
  LET strForSign == path \o "/" \o NumberToString(nonce) \o "/" \o queryString
      signatureResult == HmacSha256Hex(apiSecret, strForSign)
  IN signatureResult

\* variant of getSignature: the clock is read again instead of the nonce given
getSignatureReadsClock(path, queryString, nonce) ==
  LET strForSign == path \o "/" \o NumberToString(clock) \o "/" \o queryString
      signatureStr == Base64(strForSign)
      signatureResult == HmacSha256Hex(apiSecret, signatureStr)
  IN signatureResult

\* variant of getSignature: the nonce is left out of the signed text
getSignatureNoNonce(path, queryString, nonce) ==
  LET strForSign == path \o "/" \o queryString
      signatureStr == Base64(strForSign)
      signatureResult == HmacSha256Hex(apiSecret, signatureStr)
  IN signatureResult

getSignature(path, queryString, nonce) ==
  LET strForSign == path \o "/" \o NumberToString(nonce) \o "/" \o queryString
      signatureStr == Base64(strForSign)
      signatureResult == HmacSha256Hex(apiSecret, signatureStr)
  IN signatureResult

\* variant of optionsHeaders: the key header is attached to unsigned requests too
optionsHeadersKeyAlways(signed, path, queryString, nonce) ==
  IF signed
  THEN ("Content-Type" :> Str("application/json"))
       @@ ("KC-API-KEY" :> apiKey)
       @@ ("KC-API-NONCE" :> Num(nonce))
       @@ ("KC-API-SIGNATURE" :> getSignature(path, queryString, nonce))
  ELSE ("Content-Type" :> Str("application/json")) @@ ("KC-API-KEY" :> apiKey)

\* variant of optionsHeaders: the nonce header is a later clock reading than the
\* nonce that was signed
optionsHeadersNonceReread(signed, path, queryString, nonce) ==
  IF signed
  THEN ("Content-Type" :> Str("application/json"))
       @@ ("KC-API-KEY" :> apiKey)
       @@ ("KC-API-NONCE" :> Num(nonce + 1))
       @@ ("KC-API-SIGNATURE" :> getSignature(path, queryString, nonce))
  ELSE ("Content-Type" :> Str("application/json"))

\* rawRequest, lines 60-71: options.headers
\* variant of optionsHeaders: a signed request carries the secret as well
optionsHeadersSendsSecret(signed, path, queryString, nonce) ==
  IF signed
  THEN ("Content-Type" :> Str("application/json"))
       @@ ("KC-API-KEY" :> apiKey)
       @@ ("KC-API-SECRET" :> apiSecret)
       @@ ("KC-API-NONCE" :> Num(nonce))
       @@ ("KC-API-SIGNATURE" :> getSignature(path, queryString, nonce))
  ELSE ("Content-Type" :> Str("application/json"))

\* variant of optionsHeaders: the signature is taken without the query string
optionsHeadersSignsPath(signed, path, queryString, nonce) ==
  IF signed
  THEN ("Content-Type" :> Str("application/json"))
       @@ ("KC-API-KEY" :> apiKey)
       @@ ("KC-API-NONCE" :> Num(nonce))
       @@ ("KC-API-SIGNATURE" :> getSignature(path, "", nonce))
  ELSE ("Content-Type" :> Str("application/json"))

optionsHeaders(signed, path, queryString, nonce) ==
  IF signed
  THEN ("Content-Type" :> Str("application/json"))
       @@ ("KC-API-KEY" :> apiKey)
       @@ ("KC-API-NONCE" :> Num(nonce))
       @@ ("KC-API-SIGNATURE" :> getSignature(path, queryString, nonce))
  ELSE ("Content-Type" :> Str("application/json"))

\* rawRequest, lines 72-94: what is handed to the transport client, this.client.post
\* (options, {}, callback) or this.client.get(options, callback)
NoBody == [t |-> "none"]

\* method == 'post': true of the string 'post' and of an array or object whose
\* string conversion is 'post'; no number, boolean, null or undefined equals it
EqualsPost(method) ==
  CASE method.t = "string" -> method.s = "post"
    [] method.t \in {"array", "object"} -> JsToString(method) = "post"
    [] OTHER -> FALSE

\* variant of clientCall: the method is compared whatever its case
clientCallAnyCase(method, options, params) ==
  IF method.t = "string" /\ toLowerCase(method.s) = "post"
  THEN [verb |-> "post", options |-> options, body |-> Obj(<<>>)]
  ELSE [verb |-> "get", options |-> options, body |-> NoBody]

\* variant of clientCall: a POST carries the params as its body
clientCallParamsInBody(method, options, params) ==
  IF EqualsPost(method)
  THEN [verb |-> "post", options |-> options, body |-> params]
  ELSE [verb |-> "get", options |-> options, body |-> NoBody]

clientCall(method, options, params) ==
  IF EqualsPost(method)
  THEN [verb |-> "post", options |-> options, body |-> Obj(<<>>)]
  ELSE [verb |-> "get", options |-> options, body |-> NoBody]

\* Q: a deferred is settled by the first resolve or reject and ignores the later ones
Pending == [state |-> "pending", value |-> Undefined]

Resolve(deferred, value) ==
  IF deferred.state = "pending" THEN [state |-> "fulfilled", value |-> value] ELSE deferred

Reject(deferred, reason) ==
  IF deferred.state = "pending" THEN [state |-> "rejected", value |-> reason] ELSE deferred

\* variant of postCallback: the promise is resolved with the data of the envelope
postCallbackResolvesData(deferred, err, obj) ==
  IF Truthy(err) \/ ~Truthy(Get(obj, "success"))
  THEN LET err2 == IF ~Truthy(err) /\ ~Truthy(Get(obj, "success")) THEN obj ELSE err
       IN Reject(deferred, err2)
  ELSE Resolve(deferred, Get(obj, "data"))

\* variant of postCallback: a body without success replaces the transport error
postCallbackPrefersBody(deferred, err, obj) ==
  IF Truthy(err) \/ ~Truthy(Get(obj, "success"))
  THEN LET err2 == IF obj # Undefined /\ ~Truthy(Get(obj, "success")) THEN obj ELSE err
       IN Reject(deferred, err2)
  ELSE Resolve(deferred, obj)

\* variant of getCallback: the envelope is not made the rejection value
getCallbackRejectsErr(deferred, err, obj) ==
  IF Truthy(err) \/ ~Truthy(Get(obj, "success"))
  THEN Reject(deferred, err)
  ELSE Resolve(deferred, obj)

\* variant of postCallback: only a success that is false makes a failure
postCallbackStrictFalse(deferred, err, obj) ==
  IF Truthy(err) \/ Get(obj, "success") = Bool(FALSE)
  THEN LET err2 == IF ~Truthy(err) THEN obj ELSE err
       IN Reject(deferred, err2)
  ELSE Resolve(deferred, obj)

\* the callback given to this.client.post, lines 73-82
postCallback(deferred, err, obj) ==
  IF Truthy(err) \/ ~Truthy(Get(obj, "success"))
  THEN LET err2 == IF ~Truthy(err) /\ ~Truthy(Get(obj, "success")) THEN obj ELSE err
       IN Reject(deferred, err2)
  ELSE Resolve(deferred, obj)

\* variant of getCallback: a success false envelope settles nothing
getCallbackDropsFailure(deferred, err, obj) ==
  IF Truthy(err)
  THEN Reject(deferred, err)
  ELSE IF Truthy(Get(obj, "success")) THEN Resolve(deferred, obj) ELSE deferred

\* the callback given to this.client.get, lines 84-93
getCallback(deferred, err, obj) ==
  IF Truthy(err) \/ ~Truthy(Get(obj, "success"))
  THEN LET err2 == IF ~Truthy(err) /\ ~Truthy(Get(obj, "success")) THEN obj ELSE err
       IN Reject(deferred, err2)
  ELSE Resolve(deferred, obj)

\* variant of rawRequest: the path of the call is kept in the path_prefix field
rawRequestWritesPrefix(method, endpoint, signed, params) ==
  LET path == path_prefix \o endpoint
      nonce == clock
      queryString == queryStringOf(params)
      options == [path |-> optionsPath(path, queryString),
                  headers |-> optionsHeaders(signed, path, queryString, nonce)]
      id == Len(calls) + 1
  IN /\ path_prefix' = path
     /\ calls' = Append(calls,
                   [method |-> method, endpoint |-> endpoint, signed |-> signed,
                    params |-> params, path |-> path, nonce |-> nonce,
                    queryString |-> queryString, deferred |-> Pending,
                    key |-> apiKey, secret |-> apiSecret])
     /\ requests' = Append(requests,
                      [call |-> id, done |-> FALSE] @@ clientCall(method, options, params))
     /\ UNCHANGED <<apiKey, apiSecret, client, clock, signatures>>

\* variant of rawRequest: the nonce is made unique by counting the calls
rawRequestUniqueNonce(method, endpoint, signed, params) ==
  LET path == path_prefix \o endpoint
      nonce == clock + Len(calls)
      queryString == queryStringOf(params)
      options == [path |-> optionsPath(path, queryString),
                  headers |-> optionsHeaders(signed, path, queryString, nonce)]
      id == Len(calls) + 1
  IN /\ calls' = Append(calls,
                   [method |-> method, endpoint |-> endpoint, signed |-> signed,
                    params |-> params, path |-> path, nonce |-> nonce,
                    queryString |-> queryString, deferred |-> Pending,
                    key |-> apiKey, secret |-> apiSecret])
     /\ requests' = Append(requests,
                      [call |-> id, done |-> FALSE] @@ clientCall(method, options, params))
     /\ UNCHANGED <<apiKey, apiSecret, client, path_prefix, clock, signatures>>

\* params is read and never written: what becomes of the caller's object is
\* said by the endpoint method that was given it
rawRequest(method, endpoint, signed, params) ==
  LET path == path_prefix \o endpoint
      nonce == clock
      queryString == queryStringOf(params)
      options == [path |-> optionsPath(path, queryString),
                  headers |-> optionsHeaders(signed, path, queryString, nonce)]
      id == Len(calls) + 1
  IN /\ calls' = Append(calls,
                   [method |-> method, endpoint |-> endpoint, signed |-> signed,
                    params |-> params, path |-> path, nonce |-> nonce,
                    queryString |-> queryString, deferred |-> Pending,
                    key |-> apiKey, secret |-> apiSecret])
     /\ requests' = Append(requests,
                      [call |-> id, done |-> FALSE] @@ clientCall(method, options, params))
     /\ UNCHANGED <<apiKey, apiSecret, client, path_prefix, clock, signatures>>

doRequest(method, endpoint, params) ==
  rawRequest(method, endpoint, FALSE, params)

doSignedRequest(method, endpoint, params) ==
  rawRequest(method, endpoint, TRUE, params)

getTradingSymbols ==
  /\ doRequest(Str("get"), "/market/open/symbols", Undefined)
  /\ UNCHANGED object

\* variant of PostResponse: one deferred is shared, that of the latest call
PostResponseShared(r, err, obj) ==
  /\ r \in 1..Len(requests)
  /\ requests[r].verb = "post"
  /\ ~requests[r].done
  /\ requests' = [requests EXCEPT ![r].done = TRUE]
  /\ calls' = [calls EXCEPT ![Len(calls)].deferred = postCallback(@, err, obj)]
  /\ UNCHANGED <<apiKey, apiSecret, client, path_prefix, clock, signatures, object>>

\* the caller's object after a call of an endpoint method: the argument as the
\* method leaves it when one was given; the {} of a default is no object of the caller
Caller(params0, params) == IF params0 = Undefined THEN object ELSE params

\* variant of getExchangeRates: coins is written only when symbols are given
getExchangeRatesOmitsCoins(params0) ==
  LET given == OrEmpty(params0)
      params == IF Truthy(Get(given, "symbols"))
                THEN Set(given, "coins", Str(ArrayJoin(Get(given, "symbols").items, ",")))
                ELSE given
  IN /\ doRequest(Str("get"), "/open/currencies", params)
     /\ object' = Caller(params0, params)

getExchangeRates(params0) ==
  LET given == OrEmpty(params0)
      params == Set(given, "coins",
                    IF Truthy(Get(given, "symbols"))
                    THEN Str(ArrayJoin(Get(given, "symbols").items, ","))
                    ELSE Str(""))
  IN /\ doRequest(Str("get"), "/open/currencies", params)
     /\ object' = Caller(params0, params)

getLanguages ==
  /\ doRequest(Str("get"), "/open/lang-list", Undefined)
  /\ UNCHANGED object

changeLanguage(params0) ==
  LET params == OrEmpty(params0)
  IN /\ doSignedRequest(Str("post"), "/user/change-lang", params)
     /\ object' = Caller(params0, params)

getUserInfo ==
  /\ doSignedRequest(Str("get"), "/user/info", Undefined)
  /\ UNCHANGED object

getInviteCount ==
  /\ doSignedRequest(Str("get"), "/referrer/descendant/count", Undefined)
  /\ UNCHANGED object

getPromotionRewardInfo(params0) ==
  LET given == OrEmpty(params0)
      symbol == Get(given, "symbol")
      params == Set(given, "coin", IF Truthy(symbol) THEN symbol ELSE Str(""))
  IN /\ doSignedRequest(Str("get"),
          "/account/" \o (IF NotUndefined(symbol) THEN JsToString(symbol) \o "/" ELSE "")
                      \o "promotion/info",
          params)
     /\ object' = Caller(params0, params)

getPromotionRewardSummary(params0) ==
  LET given == OrEmpty(params0)
      symbol == Get(given, "symbol")
      params == Set(given, "coin", IF Truthy(symbol) THEN symbol ELSE Str(""))
  IN /\ doSignedRequest(Str("get"),
          "/account/" \o (IF NotUndefined(symbol) THEN JsToString(symbol) \o "/" ELSE "")
                      \o "promotion/sum",
          Undefined)
     /\ object' = Caller(params0, params)

getDepositAddress(params0) ==
  LET params == OrEmpty(params0)
  IN /\ doSignedRequest(Str("get"),
          "/account/" \o JsToString(Get(params, "symbol")) \o "/wallet/address", Undefined)
     /\ object' = Caller(params0, params)

createWithdrawal(params0) ==
  LET given == OrEmpty(params0)
      params == Set(given, "coin", Get(given, "symbol"))
  IN /\ doSignedRequest(Str("post"),
          "/account/" \o JsToString(Get(params, "symbol")) \o "/withdraw/apply", params)
     /\ object' = Caller(params0, params)

cancelWithdrawal(params0) ==
  LET params == OrEmpty(params0)
  IN /\ doSignedRequest(Str("post"),
          "/account/" \o JsToString(Get(params, "symbol")) \o "/withdraw/cancel", params)
     /\ object' = Caller(params0, params)

getDepositAndWithdrawalRecords(params0) ==
  LET params == OrEmpty(params0)
  IN /\ doSignedRequest(Str("get"),
          "/account/" \o JsToString(Get(params, "symbol")) \o "/wallet/records", params)
     /\ object' = Caller(params0, params)

\* variant of getBalance: the symbol is put in the path whether given or not
getBalanceAlwaysSegment(params0) ==
  LET params == OrEmpty(params0)
      symbol == Get(params, "symbol")
  IN /\ doSignedRequest(Str("get"), "/account/" \o JsToString(symbol) \o "/" \o "balance",
                        Undefined)
     /\ object' = Caller(params0, params)

getBalance(params0) ==
  LET params == OrEmpty(params0)
      symbol == Get(params, "symbol")
  IN /\ doSignedRequest(Str("get"),
          "/account/" \o (IF Truthy(symbol) THEN JsToString(symbol) \o "/" ELSE "")
                      \o "balance",
          Undefined)
     /\ object' = Caller(params0, params)

\* variant of createOrder: the symbol is written into a copy of the params
createOrderCopies(params0) ==
  LET given == OrEmpty(params0)
      params == Set(given, "symbol", Get(given, "pair"))
  IN /\ doSignedRequest(Str("post"), "/order", params)
     /\ object' = Caller(params0, given)

createOrder(params0) ==
  LET given == OrEmpty(params0)
      params == Set(given, "symbol", Get(given, "pair"))
  IN /\ doSignedRequest(Str("post"), "/order", params)
     /\ object' = Caller(params0, params)

getActiveOrders(params0) ==
  LET given == OrEmpty(params0)
      params == Set(given, "symbol", Get(given, "pair"))
  IN /\ doSignedRequest(Str("get"),
          "/" \o JsToString(Get(params, "pair")) \o "/order/active", params)
     /\ object' = Caller(params0, params)

\* variant of cancelOrder: the order is cancelled with a GET
cancelOrderGet(params0) ==
  LET given == OrEmpty(params0)
      params == Set(given, "symbol", Get(given, "pair"))
  IN /\ doSignedRequest(Str("get"), "/cancel-order", params)
     /\ object' = Caller(params0, params)

cancelOrder(params0) ==
  LET given == OrEmpty(params0)
      params == Set(given, "symbol", Get(given, "pair"))
  IN /\ doSignedRequest(Str("post"), "/cancel-order", params)
     /\ object' = Caller(params0, params)

\* variant of getDealtOrders: pair is renamed to symbol
getDealtOrdersRenames(params0) ==
  LET given == OrEmpty(params0)
      written == Set(given, "symbol", Get(given, "pair"))
      params == Obj(SelectSeq(written.props, LAMBDA prop : prop[1] # "pair"))
  IN /\ doSignedRequest(Str("get"),
          "/" \o JsToString(Get(given, "pair")) \o "/deal-orders", params)
     /\ object' = Caller(params0, params)

getDealtOrders(params0) ==
  LET given == OrEmpty(params0)
      params == Set(given, "symbol", Get(given, "pair"))
  IN /\ doSignedRequest(Str("get"),
          "/" \o JsToString(Get(params, "pair")) \o "/deal-orders", params)
     /\ object' = Caller(params0, params)

\* variant of getTicker: a call without a pair is rejected without a request
getTickerValidates(params0) ==
  LET params == OrEmpty(params0)
  IN IF Get(params, "pair") = Undefined
     THEN /\ calls' = Append(calls,
                        [method |-> Str("get"), endpoint |-> "", signed |-> FALSE,
                         params |-> Undefined, path |-> "", nonce |-> clock,
                         queryString |-> "",
                         deferred |-> Reject(Pending, ErrorObj("EINVAL")),
                         key |-> apiKey, secret |-> apiSecret])
          /\ object' = Caller(params0, params)
          /\ UNCHANGED <<apiKey, apiSecret, client, path_prefix, clock, requests, signatures>>
     ELSE /\ doRequest(Str("get"),
               "/" \o JsToString(Get(params, "pair")) \o "/open/tick", Undefined)
          /\ object' = Caller(params0, params)

getTicker(params0) ==
  LET params == OrEmpty(params0)
  IN /\ doRequest(Str("get"), "/" \o JsToString(Get(params, "pair")) \o "/open/tick", Undefined)
     /\ object' = Caller(params0, params)

getOrderBooks(params0) ==
  LET given == OrEmpty(params0)
      params == Set(given, "symbol", Get(given, "pair"))
      type == Get(params, "type")
  IN /\ doRequest(Str("get"),
          "/" \o JsToString(Get(params, "pair")) \o "/open/orders"
              \o (IF Truthy(type) THEN "-" \o toLowerCase(type.s) ELSE ""),
          params)
     /\ object' = Caller(params0, params)

getRecentlyDealtOrders(params0) ==
  LET params == OrEmpty(params0)
  IN /\ doRequest(Str("get"),
          "/" \o JsToString(Get(params, "pair")) \o "/open/deal-orders", params)
     /\ object' = Caller(params0, params)

getTrending ==
  /\ doRequest(Str("get"), "/market/open/coins-trending", Undefined)
  /\ UNCHANGED object

getCoins ==
  /\ doRequest(Str("get"), "/market/open/coins-list", Undefined)
  /\ UNCHANGED object

\* the transport calls the callback of request r back, once, with (err, req, res, obj)
PostResponse(r, err, obj) ==
  /\ r \in 1..Len(requests)
  /\ requests[r].verb = "post"
  /\ ~requests[r].done
  /\ requests' = [requests EXCEPT ![r].done = TRUE]
  /\ calls' = [calls EXCEPT ![requests[r].call].deferred = postCallback(@, err, obj)]
  /\ UNCHANGED <<apiKey, apiSecret, client, path_prefix, clock, signatures, object>>

\* variant of GetResponse: a failed request is handed to the transport again
GetResponseRetry(r, err, obj) ==
  /\ r \in 1..Len(requests)
  /\ requests[r].verb = "get"
  /\ ~requests[r].done
  /\ requests' =
       IF Truthy(err) \/ ~Truthy(Get(obj, "success"))
       THEN Append([requests EXCEPT ![r].done = TRUE], requests[r])
       ELSE [requests EXCEPT ![r].done = TRUE]
  /\ calls' = [calls EXCEPT ![requests[r].call].deferred = getCallback(@, err, obj)]
  /\ UNCHANGED <<apiKey, apiSecret, client, path_prefix, clock, signatures, object>>

\* variant of GetResponse: the callback runs again for a request already answered,
\* on a deferred that takes the later settlement
GetResponseResettles(r, err, obj) ==
  /\ r \in 1..Len(requests)
  /\ requests[r].verb = "get"
  /\ requests' = [requests EXCEPT ![r].done = TRUE]
  /\ calls' = [calls EXCEPT ![requests[r].call].deferred = getCallback(Pending, err, obj)]
  /\ UNCHANGED <<apiKey, apiSecret, client, path_prefix, clock, signatures, object>>

GetResponse(r, err, obj) ==
  /\ r \in 1..Len(requests)
  /\ requests[r].verb = "get"
  /\ ~requests[r].done
  /\ requests' = [requests EXCEPT ![r].done = TRUE]
  /\ calls' = [calls EXCEPT ![requests[r].call].deferred = getCallback(@, err, obj)]
  /\ UNCHANGED <<apiKey, apiSecret, client, path_prefix, clock, signatures, object>>

\* new Kucoin(key, secret): the client in use from now on is a newly built one
Construct(key, secret) ==
  /\ apiKey' = key
  /\ apiSecret' = secret
  /\ client' = [url |-> "https://api.kucoin.com"]
  /\ path_prefix' = "/v1"
  /\ UNCHANGED <<clock, calls, requests, signatures, object>>

\* getSignature(path, queryString, nonce) is called on the client, with the query
\* string that lines 45-55 build from params, and what it returns is noted
Sign(path, params, nonce) ==
  /\ signatures' = Append(signatures,
                     [secret |-> apiSecret, path |-> path, params |-> params,
                      queryString |-> queryStringOf(params), nonce |-> nonce,
                      result |-> getSignature(path, queryStringOf(params), nonce)])
  /\ UNCHANGED <<apiKey, apiSecret, client, path_prefix, clock, calls, requests, object>>

\* variant of Tick: the calls made before this millisecond are timed out
TickTimeout ==
  /\ clock < ClockStart + MaxTicks
  /\ clock' = clock + 1
  /\ calls' = [i \in 1..Len(calls) |->
                 [calls[i] EXCEPT !.deferred = Reject(@, ErrorObj("ETIMEDOUT"))]]
  /\ UNCHANGED <<apiKey, apiSecret, client, path_prefix, requests, signatures, object>>

\* a millisecond passes
Tick ==
  /\ clock < ClockStart + MaxTicks
  /\ clock' = clock + 1
  /\ UNCHANGED <<apiKey, apiSecret, client, path_prefix, calls, requests, signatures, object>>

(***************************************************************************)
(* Inputs.                                                                 *)
(***************************************************************************)
ApiKeys == {Str("K1")}
ApiSecrets == {Str("S1")}
Methods == {Str("get"), Str("post")}
Endpoint == "/order"                              \* of specification Spec
Endpoints == {"/market/open/symbols", "/order"}   \* of specification SpecCall

\* the credentials of the clients of specification SpecCredentials: two pairs of
\* strings, and none (new Kucoin())
Credentials == {<<Str("K1"), Str("S1")>>, <<Str("K2"), Str("S2")>>, <<Undefined, Undefined>>}

\* the method arguments of specification SpecMethod: strings, no value, an array
MethodValues == {Str("post"), Str("get"), Str("POST"), Str("put"), Undefined, Arr(<<"post">>)}

\* the clients and the arguments of getSignature of specification SpecSign
SignSecrets == {Str("S1"), Str("S2")}
SignPaths == {"/v1/order", "/v1/order/1"}
SignParams == {Obj(<<<<"a", Num(1)>>>>), Obj(<<<<"a", Str("1")>>>>), Obj(<<<<"1/a", Num(1)>>>>)}
SignNonces == {1, 2}

\* the params arguments of specification Spec
Params == {Obj(<<<<"b", Num(2)>>, <<"a", Num(1)>>>>)}

\* the params arguments of specification SpecCall: absent, or any object of at most
\* MaxParams properties
ParamKeys == {"a", "a1", "b", "2"}
ParamValues == {Num(1), Num(2), Str("x")}

Objects ==
  {Obj(props) : props \in
     {q \in UNION {[1..n -> ParamKeys \X ParamValues] : n \in 0..MaxParams} :
        \A i, j \in 1..Len(q) : i # j => q[i][1] # q[j][1]}}

WideParams == {Undefined} \cup Objects

\* the params arguments of the endpoint methods of specification SpecEndpoints:
\* none, or an object naming a coin, a pair, an order type or a list of coins
EndpointParams ==
  {Undefined,
   Obj(<<>>),
   Obj(<<<<"symbol", Str("GAS")>>>>),
   Obj(<<<<"symbol", Str("")>>>>),
   Obj(<<<<"pair", Str("GAS-NEO")>>, <<"type", Str("BUY")>>>>),
   Obj(<<<<"symbols", Arr(<<"NEO", "GAS">>)>>>>),
   Obj(<<<<"symbol", Str("GAS")>>, <<"pair", Str("GAS-NEO")>>, <<"amount", Num(1)>>>>)}

\* what the transport passes to a callback: an error (with or without a decoded
\* body), or no error and the decoded body, which the JSON client always supplies
Envelope(success, code, data) ==
  Obj(<<<<"success", Bool(success)>>, <<"code", Str(code)>>, <<"msg", Str("m")>>,
        <<"timestamp", Num(7)>>, <<"data", Str(data)>>>>)

Errors == {ErrorObj("ECONNREFUSED")}
Bodies == {Envelope(TRUE, "OK", "d"), Envelope(FALSE, "UNAUTH", "")}

\* the decoded bodies of specification SpecBodies: without a success field, or
\* with one that is a boolean, a number, a string or null
SuccessValues == {Bool(TRUE), Bool(FALSE), Num(0), Num(1), Str(""), Str("true"), Null}

AnyBodies ==
  {Obj(<<<<"data", Str("d")>>>>)}
    \cup {Obj(<<<<"success", v>>, <<"data", Str("d")>>>>) : v \in SuccessValues}

AnyResponses == {<<Null, b>> : b \in AnyBodies} \cup (Errors \X {Undefined})

Responses ==
  {<<Null, b>> : b \in Bodies} \cup (Errors \X ({Undefined} \cup Bodies))

(***************************************************************************)
(* Specifications.                                                         *)
(***************************************************************************)
Init ==
  /\ apiKey \in ApiKeys
  /\ apiSecret \in ApiSecrets
  /\ client = [url |-> "https://api.kucoin.com"]
  /\ path_prefix = "/v1"
  /\ clock = ClockStart
  /\ calls = <<>>
  /\ requests = <<>>
  /\ signatures = <<>>
  /\ object = Undefined

Respond ==
  \E r \in 1..Len(requests), x \in Responses :
    \/ PostResponse(r, x[1], x[2])
    \/ GetResponse(r, x[1], x[2])

Next ==
  \/ Len(calls) < MaxCalls /\ \E m \in Methods, s \in BOOLEAN, p \in Params :
       rawRequest(m, Endpoint, s, p) /\ UNCHANGED object
  \/ Len(calls) < MaxCalls /\ \E m \in Methods, p \in Params :
       doRequest(m, Endpoint, p) /\ UNCHANGED object
  \/ Len(calls) < MaxCalls /\ \E m \in Methods, p \in Params :
       doSignedRequest(m, Endpoint, p) /\ UNCHANGED object
  \/ Len(calls) < MaxCalls /\ getTradingSymbols
  \/ Respond
  \/ Tick

Spec == Init /\ [][Next]_vars

\* the calls and their responses, time apart
NextLive ==
  \/ Len(calls) < MaxCalls /\ \E m \in Methods, s \in BOOLEAN, p \in Params :
       rawRequest(m, Endpoint, s, p) /\ UNCHANGED object
  \/ Len(calls) < MaxCalls /\ \E m \in Methods, p \in Params :
       doRequest(m, Endpoint, p) /\ UNCHANGED object
  \/ Len(calls) < MaxCalls /\ \E m \in Methods, p \in Params :
       doSignedRequest(m, Endpoint, p) /\ UNCHANGED object
  \/ Len(calls) < MaxCalls /\ getTradingSymbols
  \/ Respond

\* the transport calls back, sooner or later, for every request it was given
SpecLive ==
  Init /\ [][NextLive]_vars
       /\ \A r \in 1..MaxCalls : WF_vars(\E x \in Responses : PostResponse(r, x[1], x[2])
                                                         \/ GetResponse(r, x[1], x[2]))

\* the first call on a client, up to the hand-over of its request to the
\* transport, with every params object of the bound
NextCall ==
  \/ calls = <<>> /\ \E m \in Methods, e \in Endpoints, s \in BOOLEAN, p \in WideParams :
       rawRequest(m, e, s, p) /\ UNCHANGED object
  \/ calls = <<>> /\ \E m \in Methods, e \in Endpoints, p \in WideParams :
       doRequest(m, e, p) /\ UNCHANGED object
  \/ calls = <<>> /\ \E m \in Methods, e \in Endpoints, p \in WideParams :
       doSignedRequest(m, e, p) /\ UNCHANGED object
  \/ calls = <<>> /\ getTradingSymbols
  \/ Tick

SpecCall == Init /\ [][NextCall]_vars

\* getSignature alone, called on clients built with one secret or another
NextSign ==
  \/ \E k \in ApiKeys, secret \in SignSecrets : Construct(k, secret)
  \/ Len(signatures) < MaxSignatures /\ \E path \in SignPaths, p \in SignParams, n \in SignNonces :
       Sign(path, p, n)
  \/ Tick

SpecSign == Init /\ [][NextSign]_vars

\* the dispatch operations and getSignature on one client, MaxCalls calls in all
NextFrame ==
  \/ Len(calls) + Len(signatures) < MaxCalls /\ \E m \in Methods, s \in BOOLEAN, p \in Params :
       rawRequest(m, Endpoint, s, p) /\ UNCHANGED object
  \/ Len(calls) + Len(signatures) < MaxCalls /\ \E m \in Methods, p \in Params :
       doRequest(m, Endpoint, p) /\ UNCHANGED object
  \/ Len(calls) + Len(signatures) < MaxCalls /\ \E m \in Methods, p \in Params :
       doSignedRequest(m, Endpoint, p) /\ UNCHANGED object
  \/ Len(calls) + Len(signatures) < MaxCalls /\ \E p \in Params :
       Sign(path_prefix \o Endpoint, p, clock)
  \/ Respond
  \/ Tick

SpecFrame == Init /\ [][NextFrame]_vars

\* the first call on a client made through an endpoint method, and its response
NextEndpoints ==
  \/ calls = <<>> /\ \E p \in EndpointParams : getExchangeRates(p)
  \/ calls = <<>> /\ getLanguages
  \/ calls = <<>> /\ \E p \in EndpointParams : changeLanguage(p)
  \/ calls = <<>> /\ getUserInfo
  \/ calls = <<>> /\ getInviteCount
  \/ calls = <<>> /\ \E p \in EndpointParams : getPromotionRewardInfo(p)
  \/ calls = <<>> /\ \E p \in EndpointParams : getPromotionRewardSummary(p)
  \/ calls = <<>> /\ \E p \in EndpointParams : getDepositAddress(p)
  \/ calls = <<>> /\ \E p \in EndpointParams : createWithdrawal(p)
  \/ calls = <<>> /\ \E p \in EndpointParams : cancelWithdrawal(p)
  \/ calls = <<>> /\ \E p \in EndpointParams : getDepositAndWithdrawalRecords(p)
  \/ calls = <<>> /\ \E p \in EndpointParams : getBalance(p)
  \/ calls = <<>> /\ \E p \in EndpointParams : createOrder(p)
  \/ calls = <<>> /\ \E p \in EndpointParams : getActiveOrders(p)
  \/ calls = <<>> /\ \E p \in EndpointParams : cancelOrder(p)
  \/ calls = <<>> /\ \E p \in EndpointParams : getDealtOrders(p)
  \/ calls = <<>> /\ \E p \in EndpointParams : getTicker(p)
  \/ calls = <<>> /\ \E p \in EndpointParams : getOrderBooks(p)
  \/ calls = <<>> /\ \E p \in EndpointParams : getRecentlyDealtOrders(p)
  \/ calls = <<>> /\ getTradingSymbols
  \/ calls = <<>> /\ getTrending
  \/ calls = <<>> /\ getCoins
  \/ Respond
  \/ Tick

SpecEndpoints == Init /\ [][NextEndpoints]_vars

\* the first call on a client, with any method argument, and its response
NextMethod ==
  \/ calls = <<>> /\ \E m \in MethodValues, e \in Endpoints, s \in BOOLEAN, p \in Params :
       rawRequest(m, e, s, p) /\ UNCHANGED object
  \/ calls = <<>> /\ \E m \in MethodValues, e \in Endpoints, p \in Params :
       doRequest(m, e, p) /\ UNCHANGED object
  \/ calls = <<>> /\ \E m \in MethodValues, e \in Endpoints, p \in Params :
       doSignedRequest(m, e, p) /\ UNCHANGED object
  \/ Respond
  \/ Tick

SpecMethod == Init /\ [][NextMethod]_vars

\* a caller that holds one params object and gives it to every endpoint method
\* it calls
InitReuse ==
  /\ apiKey \in ApiKeys
  /\ apiSecret \in ApiSecrets
  /\ client = [url |-> "https://api.kucoin.com"]
  /\ path_prefix = "/v1"
  /\ clock = ClockStart
  /\ calls = <<>>
  /\ requests = <<>>
  /\ signatures = <<>>
  /\ object \in EndpointParams \ {Undefined}

NextReuse ==
  \/ Len(calls) < MaxCalls /\ getExchangeRates(object)
  \/ Len(calls) < MaxCalls /\ getLanguages
  \/ Len(calls) < MaxCalls /\ changeLanguage(object)
  \/ Len(calls) < MaxCalls /\ getUserInfo
  \/ Len(calls) < MaxCalls /\ getInviteCount
  \/ Len(calls) < MaxCalls /\ getPromotionRewardInfo(object)
  \/ Len(calls) < MaxCalls /\ getPromotionRewardSummary(object)
  \/ Len(calls) < MaxCalls /\ getDepositAddress(object)
  \/ Len(calls) < MaxCalls /\ createWithdrawal(object)
  \/ Len(calls) < MaxCalls /\ cancelWithdrawal(object)
  \/ Len(calls) < MaxCalls /\ getDepositAndWithdrawalRecords(object)
  \/ Len(calls) < MaxCalls /\ getBalance(object)
  \/ Len(calls) < MaxCalls /\ createOrder(object)
  \/ Len(calls) < MaxCalls /\ getActiveOrders(object)
  \/ Len(calls) < MaxCalls /\ cancelOrder(object)
  \/ Len(calls) < MaxCalls /\ getDealtOrders(object)
  \/ Len(calls) < MaxCalls /\ getTicker(object)
  \/ Len(calls) < MaxCalls /\ getOrderBooks(object)
  \/ Len(calls) < MaxCalls /\ getRecentlyDealtOrders(object)
  \/ Len(calls) < MaxCalls /\ getTradingSymbols
  \/ Len(calls) < MaxCalls /\ getTrending
  \/ Len(calls) < MaxCalls /\ getCoins

SpecReuse == InitReuse /\ [][NextReuse]_vars

\* calls on clients built with one pair of credentials, another or none; a
\* signed call is made only on a client that has a secret
NextCredentials ==
  \/ \E c \in Credentials : Construct(c[1], c[2])
  \/ Len(calls) < MaxCalls /\ \E m \in Methods, s \in BOOLEAN, p \in Params :
       (s => apiSecret # Undefined) /\ rawRequest(m, Endpoint, s, p) /\ UNCHANGED object
  \/ Len(calls) < MaxCalls /\ \E m \in Methods, p \in Params :
       doRequest(m, Endpoint, p) /\ UNCHANGED object
  \/ Len(calls) < MaxCalls /\ apiSecret # Undefined /\ \E m \in Methods, p \in Params :
       doSignedRequest(m, Endpoint, p) /\ UNCHANGED object
  \/ Tick

SpecCredentials == Init /\ [][NextCredentials]_vars

\* the first call on a client and its response, with any decoded body
RespondAny ==
  \E r \in 1..Len(requests), x \in AnyResponses :
    \/ PostResponse(r, x[1], x[2])
    \/ GetResponse(r, x[1], x[2])

NextBodies ==
  \/ calls = <<>> /\ \E m \in Methods, s \in BOOLEAN, e \in Endpoints, p \in Params :
       rawRequest(m, e, s, p) /\ UNCHANGED object
  \/ calls = <<>> /\ \E m \in Methods, e \in Endpoints, p \in Params :
       doRequest(m, e, p) /\ UNCHANGED object
  \/ calls = <<>> /\ \E m \in Methods, e \in Endpoints, p \in Params :
       doSignedRequest(m, e, p) /\ UNCHANGED object
  \/ RespondAny
  \/ Tick

SpecBodies == Init /\ [][NextBodies]_vars

(***************************************************************************)
(* Properties.                                                             *)
(***************************************************************************)
\* the requests handed to the transport for call i
RequestsOf(i) == {r \in 1..Len(requests) : requests[r].call = i}

Orders(n) == {f \in [1..n -> 1..n] : \A i, j \in 1..n : i # j => f[i] # f[j]}

\* the object with the properties of params inserted in the order f
Reordered(params, f) == Obj([i \in 1..Len(params.props) |-> params.props[f[i]]])

\* the 'key=value' strings of an object, in insertion order
Formatted(params) ==
  [i \in 1..Len(params.props) |->
     params.props[i][1] \o "=" \o JsToString(params.props[i][2])]

\* C1: the query string a call builds from its params is the one it would build
\* from the same key/value pairs inserted in any other order.
C1_QueryStringOrderIndependent ==
  \A i \in 1..Len(calls) :
    calls[i].params # Undefined =>
      \A f \in Orders(Len(calls[i].params.props)) :
        queryStringOf(Reordered(calls[i].params, f)) = calls[i].queryString

\* a call whose params were inserted in an order that is not the sorted one
C1_Witness ==
  \E i \in 1..Len(calls) :
    /\ calls[i].params = Obj(<<<<"b", Num(2)>>, <<"a", Num(1)>>>>)
    /\ calls[i].queryString = "a=1&b=2"

\* C2: the query string is the 'key=value' strings of the params, arranged in
\* ascending order of the whole strings and joined with '&'; {b:2, a:1} gives
\* 'a=1&b=2'; an empty object and an absent params give the empty string.
C2_QueryStringSortedJoined ==
  \A i \in 1..Len(calls) :
    LET c == calls[i]
    IN /\ c.params = Undefined => c.queryString = ""
       /\ c.params = Obj(<<>>) => c.queryString = ""
       /\ c.params = Obj(<<<<"b", Num(2)>>, <<"a", Num(1)>>>>) => c.queryString = "a=1&b=2"
       /\ c.params # Undefined =>
            \E f \in Orders(Len(c.params.props)) :
              LET list == [k \in 1..Len(c.params.props) |-> Formatted(c.params)[f[k]]]
              IN /\ \A k \in 1..(Len(list) - 1) : ~StringLess(list[k + 1], list[k])
                 /\ c.queryString = ArrayJoin(list, "&")

\* a call where the order of the whole strings is not the order of the keys
C2_Witness ==
  \E i \in 1..Len(calls) :
    /\ calls[i].params = Obj(<<<<"a", Num(1)>>, <<"a1", Num(1)>>>>)
    /\ calls[i].queryString = "a1=1&a=1"

\* C3: the request of a call with signed = false has the Content-Type header,
\* equal to application/json, and no other header.
C3_UnsignedHeaders ==
  \A r \in 1..Len(requests) :
    ~calls[requests[r].call].signed =>
      /\ DOMAIN requests[r].options.headers = {"Content-Type"}
      /\ requests[r].options.headers["Content-Type"] = Str("application/json")

\* an unsigned POST with parameters was handed to the transport
C3_Witness ==
  \E r \in 1..Len(requests) :
    /\ ~calls[requests[r].call].signed
    /\ requests[r].verb = "post"
    /\ calls[requests[r].call].queryString # ""

\* C4: the request of a call with signed = true has the four headers, the key
\* header is the key of the client, and the signature header is the signature of
\* the call's path and query string with the nonce of the nonce header.
C4_SignedHeaders ==
  \A r \in 1..Len(requests) :
    LET c == calls[requests[r].call]
        h == requests[r].options.headers
    IN c.signed =>
         /\ DOMAIN h = {"Content-Type", "KC-API-KEY", "KC-API-NONCE", "KC-API-SIGNATURE"}
         /\ h["Content-Type"] = Str("application/json")
         /\ h["KC-API-KEY"] = apiKey
         /\ h["KC-API-NONCE"].t = "number"
         /\ h["KC-API-SIGNATURE"] =
              HmacSha256Hex(apiSecret,
                Base64(c.path \o "/" \o NumberToString(h["KC-API-NONCE"].n) \o "/" \o c.queryString))

\* a signed request made after the clock has advanced
C4_Witness ==
  \E r \in 1..Len(requests) :
    /\ calls[requests[r].call].signed
    /\ requests[r].options.headers["KC-API-NONCE"] = Num(ClockStart + 1)

\* a response (err, obj) is delivered to request r
Responds(r, err, obj) == GetResponse(r, err, obj) \/ PostResponse(r, err, obj)

\* C5: a response without error whose envelope has success true fulfils the
\* promise of the call with the whole envelope, for GET and for POST.
C5_ResolvesWithEnvelope ==
  [][\A r \in 1..Len(requests), x \in Responses :
       (Responds(r, x[1], x[2]) /\ x[1] = Null /\ Get(x[2], "success") = Bool(TRUE))
         => calls'[requests[r].call].deferred = [state |-> "fulfilled", value |-> x[2]]]_vars

\* a GET call and a POST call fulfilled with an envelope that has all its fields
C5_Witness ==
  \E i, j \in 1..Len(calls) :
    /\ calls[i].method = Str("get") /\ calls[j].method = Str("post")
    /\ \A k \in {i, j} :
         /\ calls[k].deferred.state = "fulfilled"
         /\ calls[k].deferred.value = Envelope(TRUE, "OK", "d")

\* C6: a response without error whose envelope has success false rejects the
\* promise of the call with that envelope, code and message included.
C6_RejectsWithEnvelope ==
  [][\A r \in 1..Len(requests), x \in Responses :
       (Responds(r, x[1], x[2]) /\ x[1] = Null /\ Get(x[2], "success") = Bool(FALSE))
         => /\ calls'[requests[r].call].deferred = [state |-> "rejected", value |-> x[2]]
            /\ Get(calls'[requests[r].call].deferred.value, "code") = Get(x[2], "code")
            /\ Get(calls'[requests[r].call].deferred.value, "msg") = Get(x[2], "msg")]_vars

\* a call rejected with the success false envelope
C6_Witness ==
  \E i \in 1..Len(calls) :
    /\ calls[i].deferred.state = "rejected"
    /\ calls[i].deferred.value = Envelope(FALSE, "UNAUTH", "")

\* C7: a response with an error rejects the promise of the call with that error
\* itself, whatever body comes with it, for GET and for POST.
C7_RejectsWithTransportError ==
  [][\A r \in 1..Len(requests), x \in Responses :
       (Responds(r, x[1], x[2]) /\ x[1] # Null)
         => calls'[requests[r].call].deferred = [state |-> "rejected", value |-> x[1]]]_vars

\* a GET call and a POST call rejected with the transport error
C7_Witness ==
  \E i, j \in 1..Len(calls) :
    /\ calls[i].method = Str("get") /\ calls[j].method = Str("post")
    /\ \A k \in {i, j} :
         /\ calls[k].deferred.state = "rejected"
         /\ calls[k].deferred.value \in Errors

\* C8: every call has handed exactly one request to the transport, before and
\* after its response, whatever the response was.
C8_OneRequestPerCall ==
  /\ \A i \in 1..Len(calls) : Cardinality(RequestsOf(i)) = 1
  /\ \A r \in 1..Len(requests) : requests[r].call \in 1..Len(calls)

\* one call failed with a transport error and another with a success false envelope
C8_Witness ==
  \E i, j \in 1..Len(calls) :
    /\ calls[i].deferred = [state |-> "rejected", value |-> ErrorObj("ECONNREFUSED")]
    /\ calls[j].deferred = [state |-> "rejected", value |-> Envelope(FALSE, "UNAUTH", "")]
    /\ \A r \in 1..Len(requests) : requests[r].done

\* C9: the path of a request is '/v1', the endpoint and, only when the query
\* string is not empty, '?' and the query string; the unsigned GET of
\* /market/open/symbols without params asks for /v1/market/open/symbols with the
\* Content-Type header alone.
C9_RequestPath ==
  \A r \in 1..Len(requests) :
    LET c == calls[requests[r].call]
        q == requests[r]
    IN /\ c.queryString = "" => q.options.path = "/v1" \o c.endpoint
       /\ c.queryString # "" => q.options.path = "/v1" \o c.endpoint \o "?" \o c.queryString
       /\ (c.method = Str("get") /\ c.endpoint = "/market/open/symbols"
             /\ ~c.signed /\ c.params = Undefined)
            => /\ q.verb = "get"
               /\ q.options.path = "/v1/market/open/symbols"
               /\ q.options.headers = ("Content-Type" :> Str("application/json"))

\* the request of getTradingSymbols
C9_Witness ==
  \E r \in 1..Len(requests) :
    /\ calls[requests[r].call].params = Undefined
    /\ ~calls[requests[r].call].signed
    /\ requests[r].verb = "get"
    /\ requests[r].options.path = "/v1/market/open/symbols"

\* C10: a GET is handed to the transport without a body and a POST with an empty
\* object as its body, whatever the params; the verb is POST exactly when the
\* method is 'post'.
C10_ParamsNotInBody ==
  \A r \in 1..Len(requests) :
    LET c == calls[requests[r].call]
        q == requests[r]
    IN /\ q.verb = "post" <=> c.method = Str("post")
       /\ q.verb = "get" <=> c.method = Str("get")
       /\ q.verb = "get" => q.body = NoBody
       /\ q.verb = "post" => q.body = Obj(<<>>)

\* a POST with parameters: they are in the path and the body is empty
C10_Witness ==
  \E r \in 1..Len(requests) :
    /\ requests[r].verb = "post"
    /\ calls[requests[r].call].params = Obj(<<<<"b", Num(2)>>, <<"a", Num(1)>>>>)
    /\ requests[r].options.path = "/v1/order?a=1&b=2"
    /\ requests[r].body = Obj(<<>>)

\* the ASCII text that a base64 string encodes
RECURSIVE Base64Decode(_)
Base64Decode(s) ==
  IF Len(s) < 4 THEN ""
  ELSE LET index(k) == IF SubSeq(s, k, k) = "=" THEN 0
                       ELSE (CHOOSE i \in 1..64 : Base64Alphabet[i] = SubSeq(s, k, k)) - 1
           n == index(1) * 262144 + index(2) * 4096 + index(3) * 64 + index(4)
           pad == Cardinality({k \in 3..4 : SubSeq(s, k, k) = "="})
           byte(k) == (n \div (256 ^ (3 - k))) % 256
           text(k) == IF k <= 3 - pad THEN Ascii[byte(k) - 31] ELSE ""
       IN text(1) \o text(2) \o text(3) \o Base64Decode(SubSeq(s, 5, Len(s)))

\* C11: the signature header of a signed request is the hex HMAC-SHA256, keyed
\* with the secret of the client, of the base64 text of prefix + endpoint (without
\* '?' and query string), '/', the nonce, '/' and the query string; the hash is
\* taken over the base64 text, not over the concatenation itself.
C11_SignatureOverBase64 ==
  \A r \in 1..Len(requests) :
    LET c == calls[requests[r].call]
        message == "/v1" \o c.endpoint \o "/" \o NumberToString(c.nonce) \o "/" \o c.queryString
        digest == requests[r].options.headers["KC-API-SIGNATURE"].digest
    IN c.signed =>
         /\ digest.hmac = "sha256"
         /\ digest.encoding = "hex"
         /\ digest.key = apiSecret
         /\ digest.data # message
         /\ Len(digest.data) = 4 * ((Len(message) + 2) \div 3)
         /\ Base64Decode(digest.data) = message

\* a signed request with a query string, whose signed text is not its request path
C11_Witness ==
  \E r \in 1..Len(requests) :
    /\ calls[requests[r].call].signed
    /\ calls[requests[r].call].queryString = "a=1&b=2"
    /\ requests[r].options.path = "/v1/order?a=1&b=2"
    /\ Base64Decode(requests[r].options.headers["KC-API-SIGNATURE"].digest.data)
         = "/v1/order/" \o NumberToString(calls[requests[r].call].nonce) \o "/a=1&b=2"

\* C12: two calls of getSignature with the same path, query string and nonce, on
\* clients with the same secret, return the same signature, whenever they are
\* made; a call of getSignature changes nothing of the client or of its calls.
C12_SignatureIsAFunctionOfItsInputs ==
  /\ [](\A i, j \in 1..Len(signatures) :
          (/\ signatures[i].secret = signatures[j].secret
           /\ signatures[i].path = signatures[j].path
           /\ signatures[i].queryString = signatures[j].queryString
           /\ signatures[i].nonce = signatures[j].nonce)
            => signatures[i].result = signatures[j].result)
  /\ [][Len(signatures') > Len(signatures)
          => UNCHANGED <<apiKey, apiSecret, client, path_prefix, clock, calls, requests>>]_vars

\* two calls with the same inputs, the later one after the clock has advanced
C12_Witness ==
  /\ Len(signatures) = 2
  /\ signatures[1].secret = signatures[2].secret
  /\ signatures[1].path = signatures[2].path
  /\ signatures[1].queryString = signatures[2].queryString
  /\ signatures[1].nonce = signatures[2].nonce
  /\ signatures[1].result = signatures[2].result
  /\ clock > ClockStart

\* how many of secret, path, field f and nonce differ between two calls
Differing(x, y, f) ==
  Cardinality({k \in {"secret", "path", f, "nonce"} : x[k] # y[k]})

\* C13 as stated: two calls that differ in exactly one of path, params, nonce and
\* secret return different signatures.
C13_AnyChangedInputChangesSignature ==
  \A i, j \in 1..Len(signatures) :
    Differing(signatures[i], signatures[j], "params") = 1
      => signatures[i].result # signatures[j].result

\* C13, amended: two calls that differ in exactly one of path, query string,
\* nonce and secret return different signatures and sign different texts; two
\* params with the same query string, all else equal, return the same signature.
C13_ChangedInputChangesSignature ==
  \A i, j \in 1..Len(signatures) :
    /\ Differing(signatures[i], signatures[j], "queryString") = 1
         => /\ signatures[i].result # signatures[j].result
            /\ (signatures[i].secret = signatures[j].secret
                  => signatures[i].result.digest.data # signatures[j].result.digest.data)
    /\ Differing(signatures[i], signatures[j], "queryString") = 0
         => signatures[i].result = signatures[j].result

\* two calls that differ in the nonce alone, and so in their signatures
C13_Witness ==
  \E i, j \in 1..Len(signatures) :
    /\ signatures[i].nonce # signatures[j].nonce
    /\ Differing(signatures[i], signatures[j], "queryString") = 1
    /\ signatures[i].result # signatures[j].result

\* C14: no call of rawRequest, doRequest, doSignedRequest or getSignature, and no
\* response to one, changes the API key, the API secret, the path prefix or the
\* transport client: they stay the values the constructor set.
C14_DispatchWritesNoField ==
  /\ [](/\ apiKey \in ApiKeys
        /\ apiSecret \in ApiSecrets
        /\ path_prefix = "/v1"
        /\ client = [url |-> "https://api.kucoin.com"])
  /\ [][UNCHANGED <<apiKey, apiSecret, client, path_prefix>>]_vars

\* a signed call that was rejected and a call of getSignature, the fields untouched
C14_Witness ==
  /\ \E i \in 1..Len(calls) : calls[i].signed /\ calls[i].deferred.state = "rejected"
  /\ Len(signatures) > 0
  /\ apiKey \in ApiKeys /\ apiSecret \in ApiSecrets
  /\ path_prefix = "/v1"
  /\ client = [url |-> "https://api.kucoin.com"]

\* the deferred of call i is settled
Settled(i) == calls[i].deferred.state \in {"fulfilled", "rejected"}

\* C15: with several calls in flight, a step that changes the promise of a call
\* is the callback of that call's own request, settles it with the error or the
\* body of that callback, and leaves every other call as it was, in whatever
\* order the responses arrive.
C15_SettledByOwnCallbackOnly ==
  [][\A i \in 1..Len(calls) :
       calls'[i].deferred # calls[i].deferred
         => \E r \in RequestsOf(i), x \in Responses :
              /\ Responds(r, x[1], x[2])
              /\ calls'[i].deferred.value \in {x[1], x[2]}
              /\ \A j \in 1..Len(calls) : j # i => calls'[j] = calls[j]]_vars

\* two calls in flight, the later one settled before the earlier one
C15_Witness ==
  /\ Len(calls) = 2
  /\ calls[1].deferred.state = "pending" /\ ~requests[1].done
  /\ calls[2].deferred.state = "fulfilled" /\ requests[2].done

\* C16: a promise is pending, fulfilled or rejected, and once it is fulfilled or
\* rejected no step changes its state or its value.
C16_SettledOnceAndFinal ==
  /\ [](\A i \in 1..Len(calls) : calls[i].deferred.state \in {"pending", "fulfilled", "rejected"})
  /\ [][\A i \in 1..Len(calls) :
          Settled(i) => calls'[i].deferred = calls[i].deferred]_vars

\* a call was fulfilled, and after it another call was made and rejected
C16_Witness ==
  /\ Len(calls) = 2
  /\ calls[1].deferred.state = "fulfilled"
  /\ calls[2].deferred.state = "rejected"
  /\ calls[2].nonce > calls[1].nonce

\* C17: when the transport calls back for every request, every call made is
\* eventually settled; every callback leaves the promise of its call fulfilled
\* or rejected, so a call whose request was answered is never pending.
C17_EveryCallSettles ==
  /\ \A i \in 1..MaxCalls :
       (Len(calls) >= i) ~> (Len(calls) >= i /\ Settled(i))
  /\ [][\A r \in 1..Len(requests), x \in Responses :
          Responds(r, x[1], x[2]) => calls'[requests[r].call].deferred.state # "pending"]_vars
  /\ [](\A r \in 1..Len(requests) : requests[r].done => Settled(requests[r].call))

\* every call possible was made, answered and settled
C17_Witness ==
  /\ Len(calls) = MaxCalls
  /\ \A r \in 1..Len(requests) : requests[r].done
  /\ \A i \in 1..Len(calls) : Settled(i)
  /\ \E i \in 1..Len(calls) : calls[i].deferred.value = Envelope(FALSE, "UNAUTH", "")

\* C18: a call whose request the transport has not answered is pending, at every
\* clock reading; a step in which no request is answered (time passing, another
\* call) changes no promise.
C18_NoTimeout ==
  /\ [](\A r \in 1..Len(requests) :
          ~requests[r].done => calls[requests[r].call].deferred = Pending)
  /\ [][(\A r \in 1..Len(requests) : requests'[r].done = requests[r].done)
          => \A i \in 1..Len(calls) : calls'[i].deferred = calls[i].deferred]_vars

\* a call still pending after all the time the clock can count and a later call
C18_Witness ==
  /\ Len(calls) = 2
  /\ calls[1].deferred = Pending /\ ~requests[1].done
  /\ calls[1].nonce = ClockStart
  /\ clock = ClockStart + MaxTicks
  /\ requests[2].done

\* the verb, options and body handed to the transport for call i
Outbound(i) ==
  {[verb |-> requests[r].verb, options |-> requests[r].options, body |-> requests[r].body] :
     r \in RequestsOf(i)}

\* C19 as stated: the nonce of a call is the clock reading at the call; two
\* signed calls with the same nonce, endpoint and params have identical
\* signatures and identical outbound requests.
C19_SameClockSameRequest ==
  \A i, j \in 1..Len(calls) :
    (/\ calls[i].signed /\ calls[j].signed
     /\ calls[i].nonce = calls[j].nonce
     /\ calls[i].endpoint = calls[j].endpoint
     /\ calls[i].params = calls[j].params)
      => Outbound(i) = Outbound(j)

\* C19, amended: the nonce of a call is the clock reading at the call, whatever
\* the nonces of earlier calls; two signed calls with the same nonce carry the same
\* nonce header; with the same endpoint and params as well they carry the same
\* path and headers, signature included; with the same verb as well their
\* outbound requests are identical.
C19_NonceIsClockNotUnique ==
  /\ [][Len(calls') > Len(calls)
          => /\ calls'[Len(calls')].nonce = clock
             /\ calls'[Len(calls')].signed
                  => requests'[Len(requests')].options.headers["KC-API-NONCE"] = Num(clock)]_vars
  /\ [](\A i, j \in 1..Len(calls) :
          (calls[i].signed /\ calls[j].signed /\ calls[i].nonce = calls[j].nonce)
            => \A r \in Outbound(i), q \in Outbound(j) :
                 /\ r.options.headers["KC-API-NONCE"] = q.options.headers["KC-API-NONCE"]
                 /\ (calls[i].endpoint = calls[j].endpoint /\ calls[i].params = calls[j].params)
                      => /\ r.options = q.options
                         /\ calls[i].method = calls[j].method => r = q)

\* two signed calls of the same verb, endpoint and params at one clock reading,
\* with one nonce, one signature and one request
C19_Witness ==
  /\ Len(calls) = 2
  /\ calls[1].signed /\ calls[2].signed
  /\ calls[1].nonce = calls[2].nonce
  /\ calls[1].method = calls[2].method
  /\ calls[1].endpoint = calls[2].endpoint /\ calls[1].params = calls[2].params
  /\ requests[1].options.headers["KC-API-SIGNATURE"]
       = requests[2].options.headers["KC-API-SIGNATURE"]
  /\ Outbound(1) = Outbound(2)

\* a step A makes one call, with the verb and the signing given
Dispatches(A, verb, signed) ==
  A => /\ Len(calls') = Len(calls) + 1
       /\ Len(requests') = Len(requests) + 1
       /\ calls'[Len(calls')].method = Str(verb)
       /\ calls'[Len(calls')].signed = signed
       /\ requests'[Len(requests')].call = Len(calls')
       /\ requests'[Len(requests')].verb = verb
       /\ ("KC-API-SIGNATURE" \in DOMAIN requests'[Len(requests')].options.headers) = signed
       /\ ("KC-API-KEY" \in DOMAIN requests'[Len(requests')].options.headers) = signed

\* C20: every endpoint method makes one call with the verb and the signing
\* listed for it: POST and signed for the five that change something, GET and
\* unsigned for the eight open ones, GET and signed for the nine account ones.
C20_EndpointVerbAndSigning ==
  [][/\ Dispatches(\E p \in EndpointParams : changeLanguage(p), "post", TRUE)
     /\ Dispatches(\E p \in EndpointParams : createWithdrawal(p), "post", TRUE)
     /\ Dispatches(\E p \in EndpointParams : cancelWithdrawal(p), "post", TRUE)
     /\ Dispatches(\E p \in EndpointParams : createOrder(p), "post", TRUE)
     /\ Dispatches(\E p \in EndpointParams : cancelOrder(p), "post", TRUE)
     /\ Dispatches(\E p \in EndpointParams : getExchangeRates(p), "get", FALSE)
     /\ Dispatches(getLanguages, "get", FALSE)
     /\ Dispatches(\E p \in EndpointParams : getTicker(p), "get", FALSE)
     /\ Dispatches(\E p \in EndpointParams : getOrderBooks(p), "get", FALSE)
     /\ Dispatches(\E p \in EndpointParams : getRecentlyDealtOrders(p), "get", FALSE)
     /\ Dispatches(getTradingSymbols, "get", FALSE)
     /\ Dispatches(getTrending, "get", FALSE)
     /\ Dispatches(getCoins, "get", FALSE)
     /\ Dispatches(getUserInfo, "get", TRUE)
     /\ Dispatches(getInviteCount, "get", TRUE)
     /\ Dispatches(\E p \in EndpointParams : getPromotionRewardInfo(p), "get", TRUE)
     /\ Dispatches(\E p \in EndpointParams : getPromotionRewardSummary(p), "get", TRUE)
     /\ Dispatches(\E p \in EndpointParams : getDepositAddress(p), "get", TRUE)
     /\ Dispatches(\E p \in EndpointParams : getDepositAndWithdrawalRecords(p), "get", TRUE)
     /\ Dispatches(\E p \in EndpointParams : getBalance(p), "get", TRUE)
     /\ Dispatches(\E p \in EndpointParams : getActiveOrders(p), "get", TRUE)
     /\ Dispatches(\E p \in EndpointParams : getDealtOrders(p), "get", TRUE)]_vars

\* the request of cancelOrder for a pair: a signed POST of /v1/cancel-order
C20_Witness ==
  \E r \in 1..Len(requests) :
    /\ calls[requests[r].call].endpoint = "/cancel-order"
    /\ calls[requests[r].call].signed
    /\ requests[r].verb = "post"
    /\ requests[r].options.path = "/v1/cancel-order?pair=GAS-NEO&symbol=GAS-NEO&type=BUY"
    /\ "KC-API-SIGNATURE" \in DOMAIN requests[r].options.headers

\* the path of a request has a segment seg between two slashes, or as its last
HasSegment(path, seg) ==
  \E i \in 1..Len(path) :
    /\ SubSeq(path, i, i) = "/"
    /\ i + Len(seg) <= Len(path)
    /\ SubSeq(path, i + 1, i + Len(seg)) = seg
    /\ i + Len(seg) = Len(path) \/ SubSeq(path, i + Len(seg) + 1, i + Len(seg) + 1) \in {"/", "?"}

\* C21: getBalance makes a signed GET without a query string, of
\* /v1/account/{symbol}/balance when its params name a symbol and of
\* /v1/account/balance when they name none (no params, no symbol property, or an
\* empty one): the path then has no empty segment and no segment 'undefined'.
C21_GetBalancePath ==
  [][\A p \in EndpointParams :
       getBalance(p) =>
         LET symbol == IF p = Undefined THEN Undefined ELSE Get(p, "symbol")
             c == calls'[Len(calls')]
             q == requests'[Len(requests')]
         IN /\ q.verb = "get" /\ c.signed
            /\ "KC-API-SIGNATURE" \in DOMAIN q.options.headers
            /\ c.queryString = ""
            /\ \A i \in 1..Len(q.options.path) : SubSeq(q.options.path, i, i) # "?"
            /\ (symbol.t = "string" /\ symbol.s # "")
                 => q.options.path = "/v1/account/" \o symbol.s \o "/balance"
            /\ (symbol = Undefined \/ symbol = Str(""))
                 => /\ q.options.path = "/v1/account/balance"
                    /\ ~HasSegment(q.options.path, "")
                    /\ ~HasSegment(q.options.path, "undefined")]_vars

\* the request of getBalance without a symbol
C21_Witness ==
  \E r \in 1..Len(requests) :
    /\ requests[r].verb = "get"
    /\ requests[r].options.path = "/v1/account/balance"
    /\ "KC-API-SIGNATURE" \in DOMAIN requests[r].options.headers

\* where the first '?' of a request path is, or one past its end when it has none
QueryMark(path) ==
  LET marks == {i \in 1..Len(path) : SubSeq(path, i, i) = "?"}
  IN IF marks = {} THEN Len(path) + 1 ELSE CHOOSE i \in marks : \A j \in marks : i <= j

\* what precedes the first '?' of a request path, and what follows it
BeforeQuery(path) == SubSeq(path, 1, QueryMark(path) - 1)
AfterQuery(path) == SubSeq(path, QueryMark(path) + 1, Len(path))

\* C22: the text signed for a signed request is the request path up to its
\* '?', '/', the nonce of the nonce header, '/' and what follows the '?' in the
\* request path, which is nothing when the path has no '?'.
C22_SignedQueryIsSentQuery ==
  \A r \in 1..Len(requests) :
    LET headers == requests[r].options.headers
        path == requests[r].options.path
    IN "KC-API-SIGNATURE" \in DOMAIN headers =>
         /\ Base64Decode(headers["KC-API-SIGNATURE"].digest.data)
              = BeforeQuery(path) \o "/" \o NumberToString(headers["KC-API-NONCE"].n)
                                  \o "/" \o AfterQuery(path)
         /\ AfterQuery(path) = calls[requests[r].call].queryString
         /\ QueryMark(path) > Len(path) => calls[requests[r].call].queryString = ""

\* a signed request with a query of two parameters
C22_Witness ==
  \E r \in 1..Len(requests) :
    /\ "KC-API-SIGNATURE" \in DOMAIN requests[r].options.headers
    /\ AfterQuery(requests[r].options.path) = "2=x&a=1"
    /\ Base64Decode(requests[r].options.headers["KC-API-SIGNATURE"].digest.data)
         = "/v1/order/" \o NumberToString(ClockStart) \o "/2=x&a=1"

\* the 'key=value' entries of a query string, those its '&' characters separate
QueryEntries(queryString) ==
  LET cuts == {0, Len(queryString) + 1}
                \cup {i \in 1..Len(queryString) : SubSeq(queryString, i, i) = "&"}
  IN {SubSeq(queryString, i + 1, j - 1) :
        <<i, j>> \in {c \in cuts \X cuts :
                        c[1] < c[2] /\ \A k \in cuts : ~(c[1] < k /\ k < c[2])}}

\* C23: getExchangeRates makes an unsigned GET of /v1/open/currencies whose
\* query has the entry 'coins=' followed by the symbols given, in the order
\* given, with ',' between them; without symbols the entry is 'coins=', and
\* without any params the path is /v1/open/currencies?coins=.
C23_ExchangeRatesCoins ==
  [][\A p \in EndpointParams :
       getExchangeRates(p) =>
         LET symbols == IF p = Undefined THEN Undefined ELSE Get(p, "symbols")
             q == requests'[Len(requests')]
             entries == QueryEntries(AfterQuery(q.options.path))
         IN /\ q.verb = "get"
            /\ DOMAIN q.options.headers = {"Content-Type"}
            /\ BeforeQuery(q.options.path) = "/v1/open/currencies"
            /\ symbols = Arr(<<"NEO", "GAS">>) => "coins=NEO,GAS" \in entries
            /\ symbols = Undefined => "coins=" \in entries
            /\ p \in {Undefined, Obj(<<>>)} => q.options.path = "/v1/open/currencies?coins="
            /\ Cardinality({e \in entries : Len(e) >= 6 /\ SubSeq(e, 1, 6) = "coins="}) = 1]_vars

\* the request of getExchangeRates for two symbols
C23_Witness ==
  \E r \in 1..Len(requests) :
    /\ requests[r].verb = "get"
    /\ DOMAIN requests[r].options.headers = {"Content-Type"}
    /\ requests[r].options.path = "/v1/open/currencies?coins=NEO,GAS&symbols=NEO,GAS"

\* C24 as stated: the request of a call is a POST when the method argument is
\* the string 'post' and a GET for every other method argument.
C24_PostOnlyForLowercasePost ==
  \A r \in 1..Len(requests) :
    /\ requests[r].verb = "post" <=> calls[requests[r].call].method = Str("post")
    /\ requests[r].verb = "get" <=> calls[requests[r].call].method # Str("post")

\* C24, amended: the request of a call is a POST when the method argument is the
\* string 'post' or an array whose string conversion is 'post', and a GET for
\* every other method argument ('POST', 'put', undefined among them); whatever
\* the method, one request is handed to the transport and the promise is
\* pending until the transport calls back.
C24_PostOnlyForEqualPost ==
  /\ [](\A r \in 1..Len(requests) :
          LET method == calls[requests[r].call].method
          IN /\ requests[r].verb = "post" <=> method \in {Str("post"), Arr(<<"post">>)}
             /\ requests[r].verb = "get" <=> method \notin {Str("post"), Arr(<<"post">>)}
             /\ method \in {Str("POST"), Str("put"), Str("get"), Undefined}
                  => requests[r].verb = "get" /\ requests[r].body = NoBody)
  /\ [][Len(calls') > Len(calls)
          => /\ Len(requests') = Len(requests) + 1
             /\ requests'[Len(requests')].call = Len(calls')
             /\ calls'[Len(calls')].deferred = Pending]_vars

\* a call without a method, sent as a GET and fulfilled
C24_Witness ==
  \E r \in 1..Len(requests) :
    /\ calls[requests[r].call].method = Undefined
    /\ requests[r].verb = "get"
    /\ requests[r].done
    /\ calls[requests[r].call].deferred.state = "fulfilled"

\* the names of the properties of an object
Keys(o) == {o.props[i][1] : i \in 1..Len(o.props)}

\* a step A leaves the caller's object with the property key holding value, and
\* with its other properties as they were
Writes(A, key, value) ==
  A => /\ Keys(object') = Keys(object) \cup {key}
       /\ Get(object', key) = value
       /\ \A k \in Keys(object) \ {key} : Get(object', k) = Get(object, k)

\* a step A leaves the caller's object as it was
Keeps(A) == A => object' = object

\* C25: the endpoint methods that derive a parameter leave the derived key in
\* the object their caller gave them (coins; coin; symbol), the other endpoint
\* methods leave that object as it was, and every call that passes its params on
\* sends every property the object then has, those left by earlier calls
\* included.
C25_DerivedKeyStaysInCallersObject ==
  [][/\ Writes(getExchangeRates(object), "coins",
               IF Get(object, "symbols") = Undefined THEN Str("") ELSE Str("NEO,GAS"))
     /\ Writes(getPromotionRewardInfo(object), "coin",
               IF Truthy(Get(object, "symbol")) THEN Get(object, "symbol") ELSE Str(""))
     /\ Writes(getPromotionRewardSummary(object), "coin",
               IF Truthy(Get(object, "symbol")) THEN Get(object, "symbol") ELSE Str(""))
     /\ Writes(createWithdrawal(object), "coin", Get(object, "symbol"))
     /\ Writes(createOrder(object), "symbol", Get(object, "pair"))
     /\ Writes(getActiveOrders(object), "symbol", Get(object, "pair"))
     /\ Writes(cancelOrder(object), "symbol", Get(object, "pair"))
     /\ Writes(getDealtOrders(object), "symbol", Get(object, "pair"))
     /\ Writes(getOrderBooks(object), "symbol", Get(object, "pair"))
     /\ Keeps(changeLanguage(object))
     /\ Keeps(getDepositAddress(object))
     /\ Keeps(cancelWithdrawal(object))
     /\ Keeps(getDepositAndWithdrawalRecords(object))
     /\ Keeps(getBalance(object))
     /\ Keeps(getTicker(object))
     /\ Keeps(getRecentlyDealtOrders(object))
     /\ Keeps(getLanguages) /\ Keeps(getUserInfo) /\ Keeps(getInviteCount)
     /\ Keeps(getTradingSymbols) /\ Keeps(getTrending) /\ Keeps(getCoins)
     /\ (Len(calls') > Len(calls) /\ calls'[Len(calls')].params # Undefined)
          => \A k \in Keys(object') :
               (k \o "=" \o JsToString(Get(object', k)))
                 \in QueryEntries(calls'[Len(calls')].queryString)]_vars

\* a caller's object with a pair and no symbol was given to createOrder and then
\* to getRecentlyDealtOrders, which sent the symbol that createOrder left in it
C25_Witness ==
  /\ Len(calls) = 2
  /\ calls[1].endpoint = "/order"
  /\ calls[2].endpoint = "/GAS-NEO/open/deal-orders"
  /\ object = Obj(<<<<"pair", Str("GAS-NEO")>>, <<"type", Str("BUY")>>,
                    <<"symbol", Str("GAS-NEO")>>>>)
  /\ "symbol=GAS-NEO" \in QueryEntries(calls[2].queryString)

\* the params that name no property key: no params at all, or an object without it
Without(key) == {p \in EndpointParams : p = Undefined \/ key \notin Keys(p)}

\* a step A hands the transport one request, whose path has the segment
\* 'undefined' right after prefix, and leaves the promise of the call pending
SendsUndefined(A, prefix) ==
  A => /\ Len(calls') = Len(calls) + 1
       /\ Len(requests') = Len(requests) + 1
       /\ requests'[Len(requests')].call = Len(calls')
       /\ ~requests'[Len(requests')].done
       /\ calls'[Len(calls')].deferred = Pending
       /\ HasSegment(BeforeQuery(requests'[Len(requests')].options.path), "undefined")
       /\ SubSeq(requests'[Len(requests')].options.path, 1, Len(prefix) + 10)
            = prefix \o "undefined/"

\* C26: an endpoint method called without its path parameter (symbol, or pair)
\* still hands its request to the transport, with 'undefined' as the segment of
\* the path where the parameter goes, and its promise is pending, not rejected.
C26_MissingPathParameterIsSent ==
  [][/\ SendsUndefined(\E p \in Without("symbol") : getDepositAddress(p), "/v1/account/")
     /\ SendsUndefined(\E p \in Without("symbol") : createWithdrawal(p), "/v1/account/")
     /\ SendsUndefined(\E p \in Without("symbol") : cancelWithdrawal(p), "/v1/account/")
     /\ SendsUndefined(\E p \in Without("symbol") : getDepositAndWithdrawalRecords(p),
                       "/v1/account/")
     /\ SendsUndefined(\E p \in Without("pair") : getActiveOrders(p), "/v1/")
     /\ SendsUndefined(\E p \in Without("pair") : getDealtOrders(p), "/v1/")
     /\ SendsUndefined(\E p \in Without("pair") : getTicker(p), "/v1/")
     /\ SendsUndefined(\E p \in Without("pair") : getOrderBooks(p), "/v1/")
     /\ SendsUndefined(\E p \in Without("pair") : getRecentlyDealtOrders(p), "/v1/")]_vars

\* the request of getTicker without a pair, sent and answered
C26_Witness ==
  \E r \in 1..Len(requests) :
    /\ requests[r].options.path = "/v1/undefined/open/tick"
    /\ requests[r].done
    /\ calls[requests[r].call].deferred.state = "fulfilled"

\* the entries of a query string for the parameter key
EntriesOf(queryString, key) ==
  {e \in QueryEntries(queryString) :
     Len(e) > Len(key) /\ SubSeq(e, 1, Len(key) + 1) = key \o "="}

\* the call just made with the params p sends one symbol entry, with the pair
\* of p as its value, and next to it the pair entry of p when p has a pair
SendsPairAsSymbolToo(p) ==
  LET pair == IF p = Undefined THEN Undefined ELSE Get(p, "pair")
      queryString == AfterQuery(requests'[Len(requests')].options.path)
  IN /\ EntriesOf(queryString, "symbol") = {"symbol=" \o JsToString(pair)}
     /\ pair # Undefined => EntriesOf(queryString, "pair") = {"pair=" \o pair.s}
     /\ pair = Undefined => EntriesOf(queryString, "pair") = {}

\* C27: createOrder, cancelOrder, getActiveOrders, getDealtOrders and
\* getOrderBooks send the pair under both names: the query string of their
\* request has the pair entry of the params and one symbol entry, whose value is
\* the pair whatever symbol the params named.
C27_PairSentAsSymbolToo ==
  [][\A p \in EndpointParams :
       /\ createOrder(p) => SendsPairAsSymbolToo(p)
       /\ cancelOrder(p) => SendsPairAsSymbolToo(p)
       /\ getActiveOrders(p) => SendsPairAsSymbolToo(p)
       /\ getDealtOrders(p) => SendsPairAsSymbolToo(p)
       /\ getOrderBooks(p) => SendsPairAsSymbolToo(p)]_vars

\* the request of createOrder for params that named another symbol
C27_Witness ==
  \E r \in 1..Len(requests) :
    /\ requests[r].verb = "post"
    /\ requests[r].options.path = "/v1/order?amount=1&pair=GAS-NEO&symbol=GAS-NEO"
    /\ object = Obj(<<<<"symbol", Str("GAS-NEO")>>, <<"pair", Str("GAS-NEO")>>,
                      <<"amount", Num(1)>>>>)

\* the string part occurs in the string whole
Contains(whole, part) ==
  \E i \in 1..(Len(whole) - Len(part) + 1) : SubSeq(whole, i, i + Len(part) - 1) = part

\* C28: two unsigned calls with the same method, endpoint and params hand the
\* transport the same verb, path, headers and body whatever the key and the
\* secret of the client each was made on, if any; no request, signed or not, has
\* the secret of its client in its path, as its body or in a header.
C28_UnsignedRequestIgnoresCredentials ==
  /\ \A i, j \in 1..Len(calls) :
       (/\ ~calls[i].signed /\ ~calls[j].signed
        /\ calls[i].method = calls[j].method
        /\ calls[i].endpoint = calls[j].endpoint
        /\ calls[i].params = calls[j].params)
         => Outbound(i) = Outbound(j)
  /\ \A r \in 1..Len(requests) :
       LET secret == calls[requests[r].call].secret
           headers == requests[r].options.headers
       IN secret # Undefined =>
            /\ ~Contains(requests[r].options.path, secret.s)
            /\ requests[r].body # secret
            /\ \A h \in DOMAIN headers :
                 /\ headers[h] # secret
                 /\ "s" \in DOMAIN headers[h] => ~Contains(headers[h].s, secret.s)
                 /\ "digest" \in DOMAIN headers[h]
                      => ~Contains(headers[h].digest.data, secret.s)

\* the same unsigned call made on a client with credentials and on one without
C28_Witness ==
  /\ Len(calls) = 2
  /\ ~calls[1].signed /\ ~calls[2].signed
  /\ calls[1].method = calls[2].method
  /\ calls[1].endpoint = calls[2].endpoint /\ calls[1].params = calls[2].params
  /\ calls[1].key = Str("K2") /\ calls[1].secret = Str("S2")
  /\ calls[2].key = Undefined /\ calls[2].secret = Undefined
  /\ Outbound(1) = Outbound(2)

\* the decoded bodies whose success is missing, or falsy without being false
NoSuccess ==
  {Obj(<<<<"data", Str("d")>>>>)}
    \cup {Obj(<<<<"success", v>>, <<"data", Str("d")>>>>) : v \in {Num(0), Str(""), Null}}

\* C29: a callback without an error whose decoded body has no success field, or
\* a success of 0, '' or null, rejects the call with that body, as a success of
\* false does; the call is fulfilled, with the body, only for a truthy success
\* (true, 1, 'true').
C29_FalsySuccessRejects ==
  /\ [][\A r \in 1..Len(requests), b \in AnyBodies :
          Responds(r, Null, b) =>
            /\ b \in NoSuccess
                 => calls'[requests[r].call].deferred = [state |-> "rejected", value |-> b]
            /\ Get(b, "success") = Bool(FALSE)
                 => calls'[requests[r].call].deferred = [state |-> "rejected", value |-> b]
            /\ Get(b, "success") \in {Bool(TRUE), Num(1), Str("true")}
                 => calls'[requests[r].call].deferred = [state |-> "fulfilled", value |-> b]]_vars
  /\ [](\A i \in 1..Len(calls) :
          calls[i].deferred.state = "fulfilled"
            => Get(calls[i].deferred.value, "success") \in {Bool(TRUE), Num(1), Str("true")})

\* a POST answered without an error by a body that has no success field
C29_Witness ==
  \E r \in 1..Len(requests) :
    /\ requests[r].verb = "post" /\ requests[r].done
    /\ calls[requests[r].call].deferred
         = [state |-> "rejected", value |-> Obj(<<<<"data", Str("d")>>>>)]

====
